---- MODULE Spec2Model ----
(***************************************************************************)
(* Model of healthkit.py: the per-workout timeseries builder               *)
(* (build_single_workout_timeseries), and the two thread-pool batch        *)
(* functions (load_xml_tag, build_workouts_timeseries).                    *)
(*                                                                         *)
(* Python values are modelled as follows.                                  *)
(*  - str used as a record type: a sequence of one-character strings, so   *)
(*    that the substring test `key in r.rec_type` and `key.lower()` are    *)
(*    computed rather than assumed.                                        *)
(*  - timezone-aware datetime: [local, off], the wall-clock hour and the   *)
(*    UTC offset in hours; the instant is local - off.                     *)
(*  - None: the string NoneVal where a str is expected; a tagged record    *)
(*    for ts_source.                                                       *)
(*  - dict: a function whose DOMAIN is the key set.                        *)
(***************************************************************************)
EXTENDS Integers, Sequences, FiniteSets, TLC

VARIABLES
    workout,        \* build_single_workout_timeseries: argument workout
    records,        \* argument records (list of HKRecord)
    rem_duplicates, \* argument rem_duplicates
    ts_source,      \* argument ts_source
    workout_data,   \* outcome of the call: exception or returned dict
    call,           \* batch function being run (or "single")
    items,          \* batch input: xml tags or workouts
    n_threads,      \* max_workers of the ThreadPoolExecutor
    futures,        \* future_tags / future_data, in submission order
    pc,             \* position of the calling thread in the batch function
    completed,      \* futures already yielded by cf.as_completed, in order
    collected,      \* list being built by [f.result() for f in futures]
    raised          \* exception propagated to the caller of the batch function

vars == <<workout, records, rem_duplicates, ts_source, workout_data,
          call, items, n_threads, futures, pc, completed, collected, raised>>

buildVars == <<workout, records, rem_duplicates, ts_source, workout_data>>
poolVars == <<call, items, n_threads, futures, pc, completed, collected, raised>>

-----------------------------------------------------------------------------
(* Bounds of the model *)

MaxRecs == 2
MaxItems == 3
MaxThreads == 2

-----------------------------------------------------------------------------
(* Python values *)

NoneVal == "None"

\* str values used as record types
StrRate == <<"R", "a", "t", "e">>
StrHeartRate == <<"H", "e", "a", "r", "t">> \o StrRate
StrSleepCategory == <<"S", "l", "e", "e", "p", "C", "a", "t", "e", "g", "o", "r", "y">>
StrCategoryLower == <<"c", "a", "t", "e", "g", "o", "r", "y">>

\* str.lower() on the characters the type names use
LowerChar(c) ==
    CASE c = "R" -> "r"
      [] c = "H" -> "h"
      [] c = "S" -> "s"
      [] c = "C" -> "c"
      [] OTHER -> c

StrLower(s) == [i \in 1..Len(s) |-> LowerChar(s[i])]

\* Python `sub in s` on str
StrContains(sub, s) ==
    \E i \in 0..(Len(s) - Len(sub)) : SubSeq(s, i + 1, i + Len(sub)) = sub

\* datetime with tzinfo: comparison operators use the UTC instant
Instant(d) == d.local - d.off

DateLE(a, b) == Instant(a) <= Instant(b)

\* datetime.isoformat(): "YYYY-MM-DDTHH:MM:SS+HH:MM". The fields are of fixed
\* width, so the string is represented by the tuple of its fields; the sign
\* character is kept as its code point ('+' is 43, '-' is 45).
isoformat(d) ==
    <<d.local, IF d.off >= 0 THEN 43 ELSE 45, IF d.off >= 0 THEN d.off ELSE -d.off>>

\* str comparison a <= b of two isoformat strings (lexicographic)
IsoLE(a, b) ==
    \/ a[1] < b[1]
    \/ a[1] = b[1] /\ a[2] < b[2]
    \/ a[1] = b[1] /\ a[2] = b[2] /\ a[3] <= b[3]

-----------------------------------------------------------------------------
(* Input domains *)

T1 == [local |-> 1, off |-> 0]
T2 == [local |-> 2, off |-> 0]
T3 == [local |-> 2, off |-> 1]
Timestamps == {T1, T2, T3}

Sources == {"A", "B"}

\* HKRecord.__init__: value is float(...) when unit is present, else the raw str
FloatValue(x) == [kind |-> "float", v |-> x]
StrValue(x) == [kind |-> "str", v |-> x]

\* (type, unit, value) of the records drawn as input
Measures ==
    { [rec_type |-> StrHeartRate, unit |-> "count/min", value |-> FloatValue(60)],
      [rec_type |-> StrHeartRate, unit |-> "count/s", value |-> FloatValue(1)],
      [rec_type |-> StrRate, unit |-> "Hz", value |-> FloatValue(2)],
      [rec_type |-> StrRate, unit |-> NoneVal, value |-> StrValue(0)],
      [rec_type |-> StrSleepCategory, unit |-> NoneVal, value |-> StrValue(1)] }

\* an HKRecord object; only the attributes the builder reads are kept
Rec(m, src, start) ==
    [rec_type |-> m.rec_type, source_name |-> src, unit |-> m.unit,
     start_date |-> start, value |-> m.value]

RecordDomain == { Rec(m, s, t) : m \in Measures, s \in Sources, t \in Timestamps }

\* an HKWorkout object; id stands for the identity of the Python object
Wk(i, s, e) == [id |-> i, start_date |-> s, end_date |-> e]

Windows == { <<T1, T2>>, <<T1, T3>>, <<T2, T2>> }

PyNone == [pytype |-> "NoneType", elems |-> << >>]
PyList(s) == [pytype |-> "list", elems |-> s]
TsSources == { PyNone, PyList(<< >>), PyList(<<"A">>), PyList(<<"B">>), PyList(<<"A", "B">>) }

SeqsUpTo(S, n) == UNION { [1..k -> S] : k \in 0..n }

-----------------------------------------------------------------------------
(* build_single_workout_timeseries *)

Raise(e) == [exc |-> e, ret |-> NoneVal]
Return(v) == [exc |-> "None", ret |-> v]
Pending == [exc |-> "pending", ret |-> NoneVal]

\* A list comprehension [r for r in s if P(r)] is SelectSeq(s, P).

\* sorted(s, key=lambda x: x.start_date.isoformat()): stable, ascending on the
\* key string. Each element goes after every element whose key is <= its own.
SortInsert(t, x) ==
    LET p == Cardinality({ i \in 1..Len(t) :
                             IsoLE(isoformat(t[i].start_date), isoformat(x.start_date)) })
    IN SubSeq(t, 1, p) \o <<x>> \o SubSeq(t, p + 1, Len(t))

sorted(s) ==
    LET F[i \in 0..Len(s)] == IF i = 0 THEN << >> ELSE SortInsert(F[i - 1], s[i])
    IN F[Len(s)]

InWindowOpenEnd(w, r) ==
    DateLE(w.start_date, r.start_date) /\ Instant(r.start_date) < Instant(w.end_date)

\* line 253: the records of the workout's window, sorted
InWindow(w, r) == DateLE(w.start_date, r.start_date) /\ DateLE(r.start_date, w.end_date)

records_of_workout(w, recs) ==
    sorted(SelectSeq(recs, LAMBDA r : InWindow(w, r)))

\* line 256
keys(row) == { row[i].rec_type : i \in 1..Len(row) }

\* lines 265, 276, 279: the condition `key in r.rec_type`
KeyMatches(key, r) == StrContains(key, r.rec_type)

\* line 265
records_by_type(row, key) == SelectSeq(row, LAMBDA r : KeyMatches(key, r))

\* line 269
UnitOf(row, key) == records_by_type(row, key)[1].unit

\* lines 274-279: the rows of ts_array
InSource(r, src) == \E i \in 1..Len(src.elems) : src.elems[i] = r.source_name

ts_rows(row, key, src) ==
    IF src # PyNone
    THEN SelectSeq(row, LAMBDA r : KeyMatches(key, r) /\ InSource(r, src))
    ELSE SelectSeq(row, LAMBDA r : KeyMatches(key, r))

\* lines 285-288
IsCategoryKey(key) == StrContains(StrCategoryLower, StrLower(key))

\* line 290: pd.Series(values, index=dates, dtype=float) cannot convert a
\* non-numeric str
SeriesFails(rows, key) ==
    /\ ~IsCategoryKey(key)
    /\ \E i \in 1..Len(rows) : rows[i].value.kind = "str"

Series(rows) == [i \in 1..Len(rows) |-> <<rows[i].start_date, rows[i].value>>]

DropDuplicatedKeepLast(ts) ==
    LET F[i \in 0..Len(ts)] ==
            IF i = 0 THEN << >>
            ELSE IF \E j \in (i + 1)..Len(ts) : Instant(ts[j][1]) = Instant(ts[i][1])
                 THEN F[i - 1]
                 ELSE Append(F[i - 1], ts[i])
    IN F[Len(ts)]

\* line 294: ts[~ts.index.duplicated()], keep='first'; index labels are equal
\* when they are the same instant
DropDuplicated(ts) ==
    LET F[i \in 0..Len(ts)] ==
            IF i = 0 THEN << >>
            ELSE IF \E j \in 1..(i - 1) : Instant(ts[j][1]) = Instant(ts[i][1])
                 THEN F[i - 1]
                 ELSE Append(F[i - 1], ts[i])
    IN F[Len(ts)]

\* lines 293-296
SeriesOf(rows, rem) == IF rem THEN DropDuplicated(Series(rows)) ELSE Series(rows)

\* line 247
IsList(src) == src.pytype = "list"

\* the builder with the source filter applied to the selection itself
build_filtering_selection(w, recs, rem, src) ==
    IF ~IsList(src) THEN Raise("TypeError")
    ELSE
      LET row == records_of_workout(w, SelectSeq(recs, LAMBDA r : InSource(r, src)))
          ks == keys(row)
          tsKeys == { k \in ks : Len(ts_rows(row, k, src)) # 0 }
      IN IF \E k \in tsKeys : SeriesFails(ts_rows(row, k, src), k)
         THEN Raise("ValueError")
         ELSE Return([workout |-> w,
                      records |-> [k \in ks |-> records_by_type(row, k)],
                      timeseries |-> [k \in tsKeys |-> SeriesOf(ts_rows(row, k, src), rem)],
                      units |-> [k \in ks |-> UnitOf(row, k)]])

build_single_workout_timeseries(w, recs, rem, src) ==
    IF ~IsList(src) THEN Raise("TypeError")
    ELSE
      LET row == records_of_workout(w, recs)
          ks == keys(row)
          tsKeys == { k \in ks : Len(ts_rows(row, k, src)) # 0 }
      IN IF \E k \in tsKeys : SeriesFails(ts_rows(row, k, src), k)
         THEN Raise("ValueError")
         ELSE Return([workout |-> w,
                      records |-> [k \in ks |-> records_by_type(row, k)],
                      timeseries |-> [k \in tsKeys |-> SeriesOf(ts_rows(row, k, src), rem)],
                      units |-> [k \in ks |-> UnitOf(row, k)]])

-----------------------------------------------------------------------------
(* Specification of a single call of build_single_workout_timeseries *)

PoolIdle ==
    /\ call = "single"
    /\ items = << >>
    /\ n_threads = 1
    /\ futures = << >>
    /\ completed = << >>
    /\ collected = << >>
    /\ raised = "None"

InitBuild ==
    /\ workout \in { Wk(1, w[1], w[2]) : w \in Windows }
    /\ records \in SeqsUpTo(RecordDomain, MaxRecs)
    /\ rem_duplicates \in BOOLEAN
    /\ ts_source \in TsSources
    /\ workout_data = Pending
    /\ pc = "call"
    /\ PoolIdle

CallBuildSingle ==
    /\ pc = "call"
    /\ call = "single"
    /\ workout_data' = build_single_workout_timeseries(workout, records, rem_duplicates, ts_source)
    /\ pc' = "returned"
    /\ UNCHANGED <<workout, records, rem_duplicates, ts_source>>
    /\ UNCHANGED <<call, items, n_threads, futures, completed, collected, raised>>

NextBuild == CallBuildSingle

SpecBuild == InitBuild /\ [][NextBuild]_vars

Returned == pc = "returned" /\ call = "single" /\ workout_data.exc = "None"
Bundle == workout_data.ret

-----------------------------------------------------------------------------
(* Properties of a single call (checked under SpecBuild) *)

Occurrences(x, s) == Cardinality({ i \in 1..Len(s) : s[i] = x })

Inside(w, r) ==
    /\ Instant(w.start_date) <= Instant(r.start_date)
    /\ Instant(r.start_date) <= Instant(w.end_date)

SelectedInput == { i \in 1..Len(records) : Inside(workout, records[i]) }

\* C1: a record R of the input is in the 'records' entry of its own type iff
\* W.start_date <= R.start_date <= W.end_date (both bounds included), and a
\* record outside the window is in no entry at all.
C1_WindowMembership ==
    Returned =>
        \A i \in 1..Len(records) :
            LET R == records[i] IN
            /\ i \in SelectedInput =>
                   /\ R.rec_type \in DOMAIN Bundle.records
                   /\ Occurrences(R, Bundle.records[R.rec_type]) = Occurrences(R, records)
            /\ i \notin SelectedInput =>
                   \A k \in DOMAIN Bundle.records : Occurrences(R, Bundle.records[k]) = 0

\* a returned bundle with one record on the end boundary of a window whose
\* bounds differ, or with a record on a boundary and another outside
C1_Witness ==
    /\ Returned
    /\ \E i, j \in 1..Len(records) :
           /\ Instant(records[i].start_date) = Instant(workout.end_date)
           /\ records[i].rec_type \in DOMAIN Bundle.records
           /\ j \notin SelectedInput

\* C3: with ts_source None or empty the call does not fail and every type of
\* the window has a series built from all its records, whatever their source.
C3_NoFilterMeansNoRestriction ==
    (pc = "returned" /\ call = "single" /\ ts_source \in {PyNone, PyList(<< >>)}) =>
        /\ workout_data.exc = "None"
        /\ \A k \in DOMAIN Bundle.records :
               /\ k \in DOMAIN Bundle.timeseries
               /\ \A i \in 1..Len(Bundle.records[k]) :
                      \E j \in 1..Len(Bundle.timeseries[k]) :
                          Instant(Bundle.timeseries[k][j][1])
                              = Instant(Bundle.records[k][i].start_date)

\* C4: for the same workout, records and rem_duplicates, every other accepted
\* ts_source gives the same 'records' and the same 'units' mappings.
C4_FilterOnlyTimeseries ==
    Returned =>
        \A src \in TsSources :
            LET other == build_single_workout_timeseries(workout, records, rem_duplicates, src)
            IN other.exc = "None" =>
                   /\ other.ret.records = Bundle.records
                   /\ other.ret.units = Bundle.units

\* two accepted filters that give different timeseries mappings
C4_Witness ==
    /\ Returned
    /\ DOMAIN Bundle.records # {}
    /\ \E src \in TsSources :
           LET other == build_single_workout_timeseries(workout, records, rem_duplicates, src)
           IN other.exc = "None" /\ other.ret.timeseries # Bundle.timeseries

\* the candidates of a type's series: the records grouped under the type, in
\* the order of the sorted selection, restricted to the filter's sources
Candidates(k) ==
    SelectSeq(Bundle.records[k],
              LAMBDA r : \E n \in 1..Len(ts_source.elems) : ts_source.elems[n] = r.source_name)

FirstAt(c, t) ==
    CHOOSE i \in 1..Len(c) :
        /\ Instant(c[i].start_date) = t
        /\ \A j \in 1..(i - 1) : Instant(c[j].start_date) # t

C7_UnitOfExactType ==
    Returned =>
        \A T \in DOMAIN Bundle.units :
            LET exact == SelectSeq(Bundle.records[T], LAMBDA r : r.rec_type = T)
            IN Bundle.units[T] = exact[1].unit

\* C8: every 'records' list and every series is in non-decreasing order of
\* the start instant, also across different UTC offsets.
C8_OrderedByInstant ==
    Returned =>
        /\ \A k \in DOMAIN Bundle.records :
               \A i, j \in 1..Len(Bundle.records[k]) :
                   i < j => Instant(Bundle.records[k][i].start_date)
                                <= Instant(Bundle.records[k][j].start_date)
        /\ \A k \in DOMAIN Bundle.timeseries :
               \A i, j \in 1..Len(Bundle.timeseries[k]) :
                   i < j => Instant(Bundle.timeseries[k][i][1])
                                <= Instant(Bundle.timeseries[k][j][1])

\* C9: keys of 'records' = keys of 'units', keys of 'timeseries' are among
\* them, a type misses from 'timeseries' only if the filter excluded all its
\* records; a window with no record gives three empty mappings and no error.
C9_KeySets ==
    (pc = "returned" /\ call = "single") =>
        /\ Returned =>
               /\ DOMAIN Bundle.records = DOMAIN Bundle.units
               /\ DOMAIN Bundle.timeseries \subseteq DOMAIN Bundle.records
               /\ \A k \in DOMAIN Bundle.records \ DOMAIN Bundle.timeseries :
                      Len(Candidates(k)) = 0
        /\ SelectedInput = {} =>
               /\ workout_data.exc = "None"
               /\ DOMAIN Bundle.records = {}
               /\ DOMAIN Bundle.timeseries = {}
               /\ DOMAIN Bundle.units = {}

-----------------------------------------------------------------------------
(* HKRecord.__init__ and HKWorkout.__init__ on an xml tag *)

\* an attribute of the tag holding a date text
DateOk(t) == [state |-> "ok", date |-> t]
DateMalformed == [state |-> "malformed", date |-> T1]
DateAbsent == [state |-> "absent", date |-> T1]

\* an attribute of the tag holding a number text
NumOk(x) == [state |-> "number", v |-> x]
NumText(x) == [state |-> "text", v |-> x]
NumAbsent == [state |-> "absent", v |-> 0]

\* dateutil.parser.parse(xml_element.attrib[name]): KeyError when the
\* attribute is missing, ParserError (a ValueError) when the text is no date
ParseDateError(a) ==
    CASE a.state = "absent" -> "KeyError"
      [] a.state = "malformed" -> "ValueError"
      [] OTHER -> "None"

\* float(xml_element.get(name)): TypeError on None, ValueError on other text
FloatError(a) ==
    CASE a.state = "absent" -> "TypeError"
      [] a.state = "text" -> "ValueError"
      [] OTHER -> "None"

\* the first exception in evaluation order, "None" if there is none
FirstError(errs) ==
    IF \A i \in 1..Len(errs) : errs[i] = "None" THEN "None"
    ELSE errs[CHOOSE i \in 1..Len(errs) :
                  errs[i] # "None" /\ \A j \in 1..(i - 1) : errs[j] = "None"]

HKRecord(xml_element) ==
    LET err == FirstError(<<ParseDateError(xml_element.creationDate),
                            ParseDateError(xml_element.startDate),
                            ParseDateError(xml_element.endDate),
                            IF xml_element.unit = NoneVal THEN "None"
                            ELSE FloatError(xml_element.value)>>)
    IN IF err # "None" THEN Raise(err)
       ELSE Return([rec_type |-> xml_element.type,
                    source_name |-> xml_element.sourceName,
                    unit |-> xml_element.unit,
                    creation_date |-> xml_element.creationDate.date,
                    start_date |-> xml_element.startDate.date,
                    end_date |-> xml_element.endDate.date,
                    value |-> IF xml_element.unit = NoneVal
                              THEN (IF xml_element.value.state = "absent"
                                    THEN [kind |-> "None", v |-> 0]
                                    ELSE StrValue(xml_element.value.v))
                              ELSE FloatValue(xml_element.value.v)])

HKWorkout(xml_element) ==
    LET err == FirstError(<<FloatError(xml_element.duration),
                            FloatError(xml_element.totalDistance),
                            FloatError(xml_element.totalEnergyBurned),
                            ParseDateError(xml_element.creationDate),
                            ParseDateError(xml_element.startDate),
                            ParseDateError(xml_element.endDate)>>)
    IN IF err # "None" THEN Raise(err)
       ELSE Return([activity_type |-> xml_element.workoutActivityType,
                    duration |-> xml_element.duration.v,
                    total_distance |-> xml_element.totalDistance.v,
                    total_energy_burned |-> xml_element.totalEnergyBurned.v,
                    source_name |-> xml_element.sourceName,
                    creation_date |-> xml_element.creationDate.date,
                    start_date |-> xml_element.startDate.date,
                    end_date |-> xml_element.endDate.date])

\* Record tags drawn as input
GoodRecordTag ==
    [type |-> StrHeartRate, sourceName |-> "A", unit |-> "count/min",
     creationDate |-> DateOk(T2), startDate |-> DateOk(T1), endDate |-> DateOk(T2),
     value |-> NumOk(60)]

XmlRecordTags ==
    { GoodRecordTag,
      [GoodRecordTag EXCEPT !.type = StrSleepCategory, !.unit = NoneVal, !.value = NumText(1)],
      [GoodRecordTag EXCEPT !.startDate = DateMalformed],
      [GoodRecordTag EXCEPT !.creationDate = DateAbsent],
      [GoodRecordTag EXCEPT !.value = NumText(0)] }

\* Workout tags drawn as input
GoodWorkoutTag ==
    [workoutActivityType |-> "Running", sourceName |-> "A",
     duration |-> NumOk(30), totalDistance |-> NumOk(5), totalEnergyBurned |-> NumOk(300),
     creationDate |-> DateOk(T2), startDate |-> DateOk(T1), endDate |-> DateOk(T2)]

XmlWorkoutTags ==
    { GoodWorkoutTag,
      [GoodWorkoutTag EXCEPT !.workoutActivityType = "Walking", !.startDate = DateOk(T3)],
      [GoodWorkoutTag EXCEPT !.totalDistance = NumAbsent],
      [GoodWorkoutTag EXCEPT !.endDate = DateMalformed] }

-----------------------------------------------------------------------------
(* load_xml_tag and build_workouts_timeseries: the ThreadPoolExecutor *)

Loads == {"load_records", "load_workouts"}

\* lines 149 and 350: the callable submitted for one item
TaskArgLast(its, i) == its[Len(its)]

\* executor.submit(lambda x: ..., item): the item is bound as the argument
TaskArg(its, i) == its[i]

RunTask(c, x, recs, rem, src) ==
    CASE c = "load_records" -> HKRecord(x)
      [] c = "load_workouts" -> HKWorkout(x)
      [] OTHER -> build_single_workout_timeseries(x, recs, rem, src)

NewFuture == [state |-> "PENDING", outcome |-> Pending]

Running == { i \in 1..Len(futures) : futures[i].state = "RUNNING" }

ResultSwallowed(f) == IF f.outcome.exc # "None" THEN Return(NoneVal) ELSE f.outcome

\* Future.result(): the value returned by the call, or its exception raised
Result(f) == f.outcome

FutureAtCompleted(fs, done, k) == fs[done[k]]

\* lines 156 and 357: the comprehension iterates the list of futures
FutureAt(fs, done, k) == fs[k]

\* inputs of a batch of record constructions / workout constructions
BuildArgsIdle ==
    /\ workout = Wk(0, T1, T1)
    /\ records = << >>
    /\ rem_duplicates = TRUE
    /\ ts_source = PyNone
    /\ workout_data = Pending

\* record lists given to build_workouts_timeseries
GoodRec == Rec([rec_type |-> StrHeartRate, unit |-> "count/min", value |-> FloatValue(60)], "A", T1)
TextRec == Rec([rec_type |-> StrRate, unit |-> NoneVal, value |-> StrValue(0)], "A", T2)
PoolRecordLists == { << >>, <<GoodRec>>, <<GoodRec, TextRec>> }

WorkoutLists ==
    UNION { { [i \in 1..n |-> Wk(i, ws[i][1], ws[i][2])] : ws \in [1..n -> Windows] }
            : n \in 0..MaxItems }

InitPool ==
    /\ n_threads \in 1..MaxThreads
    /\ \/ /\ call = "load_records"
          /\ items \in SeqsUpTo(XmlRecordTags, MaxItems)
          /\ BuildArgsIdle
       \/ /\ call = "load_workouts"
          /\ items \in SeqsUpTo(XmlWorkoutTags, MaxItems)
          /\ BuildArgsIdle
       \/ /\ call = "build_workouts_timeseries"
          /\ items \in WorkoutLists
          /\ workout = Wk(0, T1, T1)
          /\ records \in PoolRecordLists
          /\ rem_duplicates \in BOOLEAN
          /\ ts_source \in {PyNone, PyList(<<"A">>), PyList(<<"B">>)}
          /\ workout_data = Pending
    /\ futures = << >>
    /\ pc = "submit"
    /\ completed = << >>
    /\ collected = << >>
    /\ raised = "None"

\* lines 149-151, 350-351: executor.submit for the next item
Submit ==
    /\ pc = "submit"
    /\ Len(futures) < Len(items)
    /\ futures' = Append(futures, NewFuture)
    /\ UNCHANGED <<call, items, n_threads, pc, completed, collected, raised>>
    /\ UNCHANGED buildVars

\* lines 152, 352: all items submitted, the caller enters the as_completed loop
EnterAsCompleted ==
    /\ pc = "submit"
    /\ Len(futures) = Len(items)
    /\ pc' = "as_completed"
    /\ UNCHANGED <<call, items, n_threads, futures, completed, collected, raised>>
    /\ UNCHANGED buildVars

\* a worker thread takes the oldest queued work item; at most max_workers
\* threads exist
StartTask(i) ==
    /\ futures[i].state = "PENDING"
    /\ \A j \in 1..(i - 1) : futures[j].state # "PENDING"
    /\ Cardinality(Running) < n_threads
    /\ futures' = [futures EXCEPT ![i].state = "RUNNING"]
    /\ UNCHANGED <<call, items, n_threads, pc, completed, collected, raised>>
    /\ UNCHANGED buildVars

\* the worker runs the callable and stores its result or its exception
FinishTask(i) ==
    /\ futures[i].state = "RUNNING"
    /\ futures' = [futures EXCEPT
                     ![i] = [state |-> "FINISHED",
                             outcome |-> RunTask(call, TaskArg(items, i), records,
                                                 rem_duplicates, ts_source)]]
    /\ UNCHANGED <<call, items, n_threads, pc, completed, collected, raised>>
    /\ UNCHANGED buildVars

\* lines 152-154, 352-354: as_completed yields a finished future; the body is pass
YieldCompleted(i) ==
    /\ pc = "as_completed"
    /\ futures[i].state = "FINISHED"
    /\ \A k \in 1..Len(completed) : completed[k] # i
    /\ completed' = Append(completed, i)
    /\ UNCHANGED <<call, items, n_threads, futures, pc, collected, raised>>
    /\ UNCHANGED buildVars

\* the loop ends once every future was yielded; leaving the with block joins
\* the workers (shutdown(wait=True))
ExitWith ==
    /\ pc = "as_completed"
    /\ Len(completed) = Len(futures)
    /\ Running = {}
    /\ pc' = "results"
    /\ UNCHANGED <<call, items, n_threads, futures, completed, collected, raised>>
    /\ UNCHANGED buildVars

\* lines 156, 357: one step of [f.result() for f in futures]; result() blocks
\* until the future is finished and re-raises the exception of the call
ReadResult ==
    /\ pc = "results"
    /\ Len(collected) < Len(futures)
    /\ LET f == FutureAt(futures, completed, Len(collected) + 1) IN
       /\ f.state = "FINISHED"
       /\ IF Result(f).exc = "None"
          THEN /\ collected' = Append(collected, Result(f).ret)
               /\ UNCHANGED <<pc, raised>>
          ELSE /\ collected' = << >>
               /\ raised' = Result(f).exc
               /\ pc' = "raised"
    /\ UNCHANGED <<call, items, n_threads, futures, completed>>
    /\ UNCHANGED buildVars

\* lines 157, 358: return the list
ReturnList ==
    /\ pc = "results"
    /\ Len(collected) = Len(futures)
    /\ pc' = "returned"
    /\ UNCHANGED <<call, items, n_threads, futures, completed, collected, raised>>
    /\ UNCHANGED buildVars

NextPool ==
    \/ Submit
    \/ EnterAsCompleted
    \/ \E i \in 1..Len(futures) : StartTask(i)
    \/ \E i \in 1..Len(futures) : FinishTask(i)
    \/ \E i \in 1..Len(futures) : YieldCompleted(i)
    \/ ExitWith
    \/ ReadResult
    \/ ReturnList

SpecPool == InitPool /\ [][NextPool]_vars

-----------------------------------------------------------------------------
(* Properties of the batch functions (checked under SpecPool) *)

Ended == pc \in {"returned", "raised"}

Construct(x) == IF call = "load_records" THEN HKRecord(x) ELSE HKWorkout(x)

\* C2: when every build succeeds, build_workouts_timeseries returns N bundles
\* and each input workout is the 'workout' of exactly one of them.
C2_EachWorkoutOnce ==
    ( /\ call = "build_workouts_timeseries"
      /\ Ended
      /\ \A i \in 1..Len(futures) : futures[i].outcome.exc = "None" ) =>
        /\ pc = "returned"
        /\ Len(collected) = Len(items)
        /\ \A i \in 1..Len(items) :
               Cardinality({ j \in 1..Len(collected) : collected[j].workout = items[i] }) = 1

\* two workers, the last workout finished first, all bundles returned
C2_Witness ==
    /\ call = "build_workouts_timeseries"
    /\ pc = "returned"
    /\ n_threads >= 2
    /\ Len(items) >= 2
    /\ completed[1] = Len(items)

\* C6: load_xml_tag raises a construction error and returns no list when the
\* construction of some item fails, and returns one instance per item, in
\* order, when none fails; the call ends in no other way.
C6_AllOrNothing ==
    call \in Loads =>
        /\ Ended =>
               LET failing == { i \in 1..Len(items) : Construct(items[i]).exc # "None" } IN
               IF failing # {}
               THEN /\ pc = "raised"
                    /\ raised \in { Construct(items[i]).exc : i \in failing }
                    /\ collected = << >>
               ELSE /\ pc = "returned"
                    /\ raised = "None"
                    /\ Len(collected) = Len(items)
                    /\ \A i \in 1..Len(items) : collected[i] = Construct(items[i]).ret
        /\ ~Ended => ENABLED NextPool

\* a batch whose first item was constructed and whose last item failed
C6_Witness ==
    /\ call \in Loads
    /\ pc = "raised"
    /\ Len(items) >= 2
    /\ Construct(items[1]).exc = "None"
    /\ Construct(items[Len(items)]).exc # "None"

\* C10: the returned list is in input order whatever the completion order,
\* and no result is read before every submitted task has finished.
C10_SubmissionOrder ==
    /\ (collected # << >> \/ Ended) =>
           /\ Len(futures) = Len(items)
           /\ \A i \in 1..Len(futures) : futures[i].state = "FINISHED"
    /\ pc = "returned" =>
           /\ Len(collected) = Len(items)
           /\ \A i \in 1..Len(collected) :
                  IF call = "build_workouts_timeseries"
                  THEN collected[i].workout = items[i]
                  ELSE collected[i] = Construct(items[i]).ret

\* a returned batch of builds whose first completed task was not the first
\* submitted
C10_Witness ==
    /\ pc = "returned"
    /\ call = "build_workouts_timeseries"
    /\ Len(collected) >= 2
    /\ completed[1] # 1

====
